---- MODULE Spec2Model ----
(***************************************************************************)
(* Per-order matrix-element evaluators of the chiral M1 operator           *)
(* (src/src/m1.cpp), the operator fields of src/src/chiral.h and the way   *)
(* the driver of src/src/main.cpp calls the evaluators.                    *)
(*                                                                         *)
(* A C++ double is modelled as an extended rational <<num, den>>:          *)
(*   den > 0  a finite value in lowest terms,                              *)
(*   <<1,0>> and <<-1,0>>  +infinity and -infinity,                        *)
(*   <<0,0>>  NaN.                                                         *)
(* Arithmetic is exact on finite values and follows IEEE-754 on the        *)
(* special values (NaN is absorbing, 0 * inf = NaN, inf - inf = NaN).      *)
(* Rounding of finite values is not modelled.                              *)
(***************************************************************************)
EXTENDS Integers, Sequences, FiniteSets, TLC

VARIABLES
  op,       \* the operator object: order, J0, G0, T0 (chiral.h:50-53)
  lib,      \* the external numeric libraries (pure functions), see Oracle
  build,    \* how the build converts an invalid double to int
  pc,       \* "idle": no call in progress; "called": a call has returned;
            \* "again": a second call with the same arguments has returned
  last,     \* the last evaluator call: its arguments and what it returned
  drv       \* the driver's run: requested order, loop position, matrices

vars == <<op, lib, build, pc, last, drv>>

----------------------------------------------------------------------------
(* Bounds of the model.                                                    *)

\* Oscillator-quanta truncation of both bases (main.cpp:23 Nmax).
Nmax == 2

\* Width of int in the model.  Only the value a build gives to an invalid
\* double-to-int conversion depends on it (IntMin below).
IntBits == 8

----------------------------------------------------------------------------
(* Doubles.                                                                *)

Abs(i) == IF i < 0 THEN -i ELSE i

Sgn(i) == IF i > 0 THEN 1 ELSE IF i < 0 THEN -1 ELSE 0

RECURSIVE GCD(_, _)
GCD(a, b) == IF b = 0 THEN a ELSE GCD(b, a % b)

\* The double n/d: lowest terms, positive denominator; d = 0 gives an
\* infinity (n # 0) or NaN (n = 0).
Rat(n, d) ==
  IF d = 0 THEN <<Sgn(n), 0>>
  ELSE IF n = 0 THEN <<0, 1>>
  ELSE LET g == GCD(Abs(n), Abs(d))
       IN  <<(Sgn(d) * n) \div g, Abs(d) \div g>>

NaN == <<0, 0>>
Zero == <<0, 1>>
One == <<1, 1>>
Two == <<2, 1>>
Half == <<1, 2>>

isnan(x) == x = NaN

\* if (isnan(result)) result = 0;
NaNToZero(x) == IF isnan(x) THEN Zero ELSE x

IsFinite(x) == x[2] # 0

FromInt(i) == <<i, 1>>

\* bool -> double (delta_T, m1.cpp:169; the Nr/Nc gate, m1.cpp:276).
FromBool(p) == IF p THEN One ELSE Zero

Mul(x, y) == Rat(x[1] * y[1], x[2] * y[2])

Add(x, y) ==
  IF isnan(x) \/ isnan(y) THEN NaN
  ELSE IF x[2] = 0 /\ y[2] = 0 THEN (IF x = y THEN x ELSE NaN)
  ELSE IF x[2] = 0 THEN x
  ELSE IF y[2] = 0 THEN y
  ELSE Rat(x[1] * y[2] + y[1] * x[2], x[2] * y[2])

Neg(x) == <<-x[1], x[2]>>

Sub(x, y) == Add(x, Neg(y))

\* 1/x: 1/0 = +inf, 1/inf = 0, 1/NaN = NaN.
Recip(x) == Rat(x[2], x[1])

Div(x, y) == Mul(x, Recip(y))

square(x) == Mul(x, x)

cube(x) == Mul(x, Mul(x, x))

IntMin == -(2 ^ (IntBits - 1))
IntMax == 2 ^ (IntBits - 1) - 1

\* Truncation toward zero of a finite double.
Trunc(x) == IF x[1] >= 0 THEN x[1] \div x[2] ELSE -((-x[1]) \div x[2])

\* double -> int (the assignment to the int `relative`, m1.cpp:379,384).
\* A value that fits is truncated toward zero.  NaN, an infinity or a value
\* out of range is undefined behaviour: the build decides.  "indefinite" is
\* the x86 cvttsd2si result (INT_MIN for every invalid operand),
\* "saturating" the AArch64 fcvtzs result (NaN -> 0, otherwise clamped).
ToInt(x, bld) ==
  IF IsFinite(x) /\ Trunc(x) >= IntMin /\ Trunc(x) <= IntMax THEN Trunc(x)
  ELSE IF bld = "indefinite" THEN IntMin
  ELSE IF isnan(x) THEN 0
  ELSE IF x[1] > 0 THEN IntMax ELSE IntMin

Builds == {"indefinite", "saturating"}

----------------------------------------------------------------------------
(* The two-body bases (basis/lsjt_scheme.h, used through the accessors     *)
(* n(), L(), S(), J(), T() and Nr(), lr(), Nc(), lc()).  The states are    *)
(* those the basis layer enumerates: 2n + L <= Nmax, S and T in {0,1},     *)
(* L + S + T odd (antisymmetry), |L - S| <= J <= L + S.                    *)

Triangle(a, b, c) == Abs(a - b) <= c /\ c <= a + b

\* Total angular momenta kept in the relative basis (main.cpp:24 Jmax).
JValues == {0, 1}

\* Total angular momenta kept in the relative+CM basis.
JValuesCM == {0}

RelativeStateLSJT ==
  {st \in [n : 0..Nmax, L : 0..Nmax, S : {0, 1}, J : JValues, T : {0, 1}] :
     /\ 2 * st.n + st.L <= Nmax
     /\ (st.L + st.S + st.T) % 2 = 1
     /\ Triangle(st.L, st.S, st.J)}

RelativeCMStateLSJT ==
  {st \in [Nr : 0..Nmax, lr : 0..Nmax, Nc : 0..Nmax, lc : 0..Nmax,
           L : 0..Nmax, S : {0, 1}, J : JValuesCM, T : {0, 1}] :
     /\ 2 * st.Nr + st.lr + 2 * st.Nc + st.lc <= Nmax
     /\ Triangle(st.lr, st.lc, st.L)
     /\ (st.lr + st.S + st.T) % 2 = 1
     /\ Triangle(st.L, st.S, st.J)}

\* The per-call configuration: the oscillator parameter b
\* (util::OscillatorParameter: the relative length b.relative() and the
\* centre-of-mass length b.cm(), both from one oscillator energy), the
\* regularize flag and the regulator.
Configurations ==
  {[b |-> [relative |-> One, cm |-> Half], regularize |-> FALSE, regulator |-> One],
   [b |-> [relative |-> Two, cm |-> One], regularize |-> TRUE, regulator |-> Zero]}

\* T0 is a std::size_t; the driver's containers hold T0 = 0, 1, 2
\* (main.cpp:73-75).
T0Values == 0..2

\* Abody is a std::size_t; 1 and 2 are the body counts, 3 stands for any
\* other value.
AbodyValues == 1..3

\* enum class Order.
Order == {"lo", "nlo", "n2lo", "n3lo", "n4lo", "full"}

----------------------------------------------------------------------------
(* The physical constants of constants.h.  Their values are not part of    *)
(* the evaluators; each is a fixed finite nonzero double, here a rational  *)
(* close to the physical value.                                            *)

isoscalar_nucleon_magnetic_moment == Rat(22, 25)
isovector_nucleon_magnetic_moment == Rat(47, 10)
pion_mass_fm == Rat(7, 10)
gA == Rat(5, 4)
d18_fm == Rat(-1, 4)
d9_fm == Rat(-1, 20)
L2_fm == Rat(1, 5)
pi == Rat(22, 7)
nuclear_magneton_fm == Rat(1, 10)
pion_decay_constant_fm == Rat(1, 2)
nucleon_mass_fm == Rat(19, 4)

\* std::sqrt of a constant argument, as a rational close to the root.
sqrt10 == Rat(19, 6)
sqrt3 == Rat(7, 4)
sqrt3over5 == Rat(7, 9)
sqrt9over5 == Rat(4, 3)
sqrt14over5 == Rat(5, 3)
sqrt28over5 == Rat(7, 3)

----------------------------------------------------------------------------
(* The external numeric libraries: the angular-momentum RMEs (am::), the   *)
(* radial quadratures (quadrature::) and the oscillator norms (ho::).      *)
(* Each is a pure function of its arguments returning a double.  A library *)
(* lib assigns one value of OracleValues to each class of OracleClasses;   *)
(* a function's value at given arguments is the value of the class that    *)
(* its identity and its arguments select.                                  *)

OracleValues == <<Zero, One, NaN>>

OracleClasses == {1, 2}

Libraries == [OracleClasses -> 1..Len(OracleValues)]

\* A key of an argument list: position-weighted sum.
RECURSIVE KeyFrom(_, _)
KeyFrom(args, i) == IF i = 0 THEN 0 ELSE i * args[i] + KeyFrom(args, i - 1)

Key(args) == KeyFrom(args, Len(args))

Oracle(id, args) ==
  OracleValues[lib[((id + Key(args)) % Cardinality(OracleClasses)) + 1]]

\* quadrature::gsl_params_2n: an aggregate, brace-initialised by position.
gsl_params_2n(a1, a2, a3, a4, a5, a6, a7) ==
  [nrp |-> a1, lrp |-> a2, nr |-> a3, lr |-> a4, regularize |-> a5,
   regulator |-> a6, pion_mass |-> a7]

\* The argument list of a quadrature over a parameter bundle.
BundleArgs(p) ==
  <<p.nrp, p.lrp, p.nr, p.lr, IF p.regularize THEN 1 ELSE 0,
    p.regulator[1], p.regulator[2], p.pion_mass[1], p.pion_mass[2]>>

RelativeSpinSymmetricRME(Lp, L, Sp, S, Jp, J, a, b) ==
  Oracle(1, <<Lp, L, Sp, S, Jp, J, a, b>>)
SpinSymmetricRME(Tp, T) == Oracle(2, <<Tp, T>>)
RelativeSpinAntisymmetricRME(Lp, L, Sp, S, Jp, J, a, b) ==
  Oracle(3, <<Lp, L, Sp, S, Jp, J, a, b>>)
SpinAntisymmetricRME(Tp, T) == Oracle(4, <<Tp, T>>)
RelativeLrelRME(Lp, L, Sp, S, Jp, J) == Oracle(6, <<Lp, L, Sp, S, Jp, J>>)
CoordinateSpaceNorm(n, l, b) == Oracle(7, <<n, l, b>>)
IntegralZPiYPiR(p) == Oracle(8, BundleArgs(p))
IntegralTPiYPiR(p) == Oracle(9, BundleArgs(p))
RelativePauliProductRME(Lp, L, Sp, S, Jp, J, a, b, c) ==
  Oracle(10, <<Lp, L, Sp, S, Jp, J, a, b, c>>)
PauliProductRME(Tp, T, r) == Oracle(11, <<Tp, T, r>>)
RelativeCMSpinSymmetricRME(lrp, lr, lcp, lc, Lp, L, Sp, S, Jp, J, a, b, c, d) ==
  Oracle(12, <<lrp, lr, lcp, lc, Lp, L, Sp, S, Jp, J, a, b, c, d>>)
RelativeCMSpinAntisymmetricRME(lrp, lr, lcp, lc, Lp, L, Sp, S, Jp, J, a, b, c, d) ==
  Oracle(13, <<lrp, lr, lcp, lc, Lp, L, Sp, S, Jp, J, a, b, c, d>>)
RelativeCMLsumRME(lrp, lr, lcp, lc, Lp, L, Sp, S, Jp, J) ==
  Oracle(14, <<lrp, lr, lcp, lc, Lp, L, Sp, S, Jp, J>>)
GradientME(np, n, lp, l) == Oracle(15, <<np, n, lp, l>>)
RadiusME(np, n, lp, l) == Oracle(16, <<np, n, lp, l>>)
IntegralMPiR(ncp, nc, lcp, lc) == Oracle(17, <<ncp, nc, lcp, lc>>)
IntegralMPiRWPiRYPiR(p) == Oracle(18, BundleArgs(p))
RelativeCMPauliProductRME(lrp, lr, lcp, lc, Lp, L, Sp, S, Jp, J, a, b, c, d, e) ==
  Oracle(19, <<lrp, lr, lcp, lc, Lp, L, Sp, S, Jp, J, a, b, c, d, e>>)
IntegralYPiR(p) == Oracle(20, BundleArgs(p))
IntegralWPiRYPiR(p) == Oracle(21, BundleArgs(p))
IntegralRegularizedDelta(p) == Oracle(22, BundleArgs(p))

----------------------------------------------------------------------------
(* Term evaluators (m1.cpp:143-462).  bra is the primed state.             *)

\* Variant of the T0 = 0 branch that takes the isovector moment.
NLO1BodyRel_isoscalar_isovector_moment(bra, ket) ==
  LET L == ket.L    Lp == bra.L
      S == ket.S    Sp == bra.S
      J == ket.J    Jp == bra.J
      T == ket.T    Tp == bra.T
      symm_rme_spin == RelativeSpinSymmetricRME(Lp, L, Sp, S, Jp, J, 0, 1)
      delta_T == FromBool(Tp = T)
      spin_symm_term ==
        Mul(Mul(isovector_nucleon_magnetic_moment, symm_rme_spin), delta_T)
      oam_term == Mul(Mul(Half, RelativeLrelRME(Lp, L, Sp, S, Jp, J)), delta_T)
  IN  Add(spin_symm_term, oam_term)

\* The T0 = 0 branch of the relative NLO one-body term (m1.cpp:164-181).
NLO1BodyRel_isoscalar(bra, ket) ==
  LET L == ket.L    Lp == bra.L
      S == ket.S    Sp == bra.S
      J == ket.J    Jp == bra.J
      T == ket.T    Tp == bra.T
      symm_rme_spin == RelativeSpinSymmetricRME(Lp, L, Sp, S, Jp, J, 0, 1)
      delta_T == FromBool(Tp = T)
      spin_symm_term ==
        Mul(Mul(isoscalar_nucleon_magnetic_moment, symm_rme_spin), delta_T)
      oam_term == Mul(Mul(Half, RelativeLrelRME(Lp, L, Sp, S, Jp, J)), delta_T)
  IN  Add(spin_symm_term, oam_term)

\* The T0 = 1 branch of the relative NLO one-body term (m1.cpp:164-193).
NLO1BodyRel_isovector(bra, ket) ==
  LET L == ket.L    Lp == bra.L
      S == ket.S    Sp == bra.S
      J == ket.J    Jp == bra.J
      T == ket.T    Tp == bra.T
      symm_rme_spin == RelativeSpinSymmetricRME(Lp, L, Sp, S, Jp, J, 0, 1)
      symm_rme_isospin == SpinSymmetricRME(Tp, T)
      asymm_rme_spin == RelativeSpinAntisymmetricRME(Lp, L, Sp, S, Jp, J, 0, 1)
      asymm_rme_isospin == SpinAntisymmetricRME(Tp, T)
      spin_symm_term ==
        Mul(Mul(isovector_nucleon_magnetic_moment, symm_rme_spin), symm_rme_isospin)
      spin_asymm_term ==
        Mul(Mul(isovector_nucleon_magnetic_moment, asymm_rme_spin), asymm_rme_isospin)
      oam_term ==
        Mul(Mul(Half, RelativeLrelRME(Lp, L, Sp, S, Jp, J)), symm_rme_isospin)
  IN  Add(Add(spin_symm_term, spin_asymm_term), oam_term)

\* Variant of NLO1BodyRel whose guard tests the radial quantum number only.
NLO1BodyRel_radial_guard_only(bra, ket, T0) ==
  IF ket.n # bra.n THEN Zero
  ELSE IF T0 = 0 THEN NLO1BodyRel_isoscalar(bra, ket)
  ELSE IF T0 = 1 THEN NLO1BodyRel_isovector(bra, ket)
  ELSE Zero

\* NLO one-body term, relative states (m1.cpp:151-200).  The result is
\* returned as computed: this overload has no isnan test.
NLO1BodyRel(bra, ket, T0) ==
  IF ket.n # bra.n \/ ket.L # bra.L THEN Zero
  ELSE IF T0 = 0 THEN NLO1BodyRel_isoscalar(bra, ket)
  ELSE IF T0 = 1 THEN NLO1BodyRel_isovector(bra, ket)
  ELSE Zero

\* The parameter bundle of the relative NLO two-body term (m1.cpp:218-225).
NLO2BodyRel_prel(bra, ket, b, regularize, regulator) ==
  LET brel == b.relative
      scaled_regulator_rel == Div(regulator, brel)
      scaled_pion_mass_rel == Mul(pion_mass_fm, brel)
  IN  gsl_params_2n(bra.n, bra.L, ket.n, ket.L, regularize,
                    scaled_regulator_rel, scaled_pion_mass_rel)

\* The LEC prefactor of the relative NLO two-body term (m1.cpp:241-244).
NLO2BodyRel_lecp ==
  Div(Mul(Mul(gA, d18_fm), cube(pion_mass_fm)),
      Mul(Mul(Mul(FromInt(12), pi), nuclear_magneton_fm),
          square(pion_decay_constant_fm)))

\* The relative NLO two-body term past its T0 guard (m1.cpp:212-251).
NLO2BodyRel_isovector(bra, ket, b, regularize, regulator) ==
  LET nr == ket.n   nrp == bra.n
      L == ket.L    Lp == bra.L
      S == ket.S    Sp == bra.S
      J == ket.J    Jp == bra.J
      T == ket.T    Tp == bra.T
      prel == NLO2BodyRel_prel(bra, ket, b, regularize, regulator)
      norm_product_rel ==
        Mul(CoordinateSpaceNorm(nr, L, 1), CoordinateSpaceNorm(nrp, Lp, 1))
      zpi_integral == Mul(norm_product_rel, IntegralZPiYPiR(prel))
      tpi_integral == Mul(norm_product_rel, IntegralTPiYPiR(prel))
      A6S1_rme == Mul(sqrt10, RelativePauliProductRME(Lp, L, Sp, S, Jp, J, 2, 1, 1))
      S1_rme == RelativePauliProductRME(Lp, L, Sp, S, Jp, J, 0, 1, 1)
      T1_rme == PauliProductRME(Tp, T, 1)
      result0 == Add(Mul(A6S1_rme, zpi_integral), Mul(S1_rme, tpi_integral))
      result == Mul(result0, Mul(NLO2BodyRel_lecp, T1_rme))
  IN  NaNToZero(result)

\* Variant of NLO2BodyRel whose guard tests T0 = 0.
NLO2BodyRel_guard_T0_zero(bra, ket, b, regularize, regulator, T0) ==
  IF T0 = 0 THEN Zero
  ELSE NLO2BodyRel_isovector(bra, ket, b, regularize, regulator)

\* NLO two-body term, relative states (m1.cpp:202-252).
NLO2BodyRel(bra, ket, b, regularize, regulator, T0) ==
  IF T0 # 1 THEN Zero
  ELSE NLO2BodyRel_isovector(bra, ket, b, regularize, regulator)

\* The T0 = 0 branch of the relative+CM NLO one-body term
\* (m1.cpp:267-293).
NLO1BodyCM_isoscalar(bra, ket) ==
  LET lr == ket.lr  lrp == bra.lr
      lc == ket.lc  lcp == bra.lc
      L == ket.L    Lp == bra.L
      S == ket.S    Sp == bra.S
      J == ket.J    Jp == bra.J
      T == ket.T    Tp == bra.T
      symm_rme_spin ==
        RelativeCMSpinSymmetricRME(lrp, lr, lcp, lc, Lp, L, Sp, S, Jp, J, 0, 0, 0, 1)
      delta_T == FromBool(Tp = T)
      spin_term ==
        Mul(Mul(isoscalar_nucleon_magnetic_moment, symm_rme_spin), delta_T)
      oam_term == Mul(Mul(Half, RelativeLrelRME(Lp, L, Sp, S, Jp, J)), delta_T)
  IN  Add(spin_term, oam_term)

\* The T0 = 1 branch of the relative+CM NLO one-body term
\* (m1.cpp:267-307).
NLO1BodyCM_isovector(bra, ket) ==
  LET nr == ket.Nr  nrp == bra.Nr
      lr == ket.lr  lrp == bra.lr
      nc == ket.Nc  ncp == bra.Nc
      lc == ket.lc  lcp == bra.lc
      L == ket.L    Lp == bra.L
      S == ket.S    Sp == bra.S
      J == ket.J    Jp == bra.J
      T == ket.T    Tp == bra.T
      symm_rme_spin ==
        RelativeCMSpinSymmetricRME(lrp, lr, lcp, lc, Lp, L, Sp, S, Jp, J, 0, 0, 0, 1)
      symm_rme_isospin == SpinSymmetricRME(Tp, T)
      asymm_rme_spin ==
        RelativeCMSpinAntisymmetricRME(lrp, lr, lcp, lc, Lp, L, Sp, S, Jp, J, 0, 0, 0, 1)
      asymm_rme_isospin == SpinAntisymmetricRME(Tp, T)
      lsum_me ==
        Mul(RelativeCMLsumRME(lrp, lr, lcp, lc, Lp, L, Sp, S, Jp, J),
            FromBool(nrp = nr /\ ncp = nc))
      mass_ratio_sqrt == Half
      rcm_prel_me ==
        Mul(Mul(mass_ratio_sqrt, GradientME(nrp, nr, lrp, lr)),
            RadiusME(ncp, nc, lcp, lc))
      rrel_pcm_me ==
        Div(Mul(RadiusME(nrp, nr, lrp, lr), GradientME(ncp, nc, lcp, lc)),
            mass_ratio_sqrt)
      spin_symm_term ==
        Mul(Mul(isovector_nucleon_magnetic_moment, symm_rme_spin), symm_rme_isospin)
      spin_asymm_term ==
        Mul(Mul(isovector_nucleon_magnetic_moment, asymm_rme_spin), asymm_rme_isospin)
      oam_diagonal_term == Mul(Mul(Half, lsum_me), symm_rme_isospin)
      oam_cross_term ==
        Mul(Mul(Half, Add(Mul(Two, rcm_prel_me), Mul(Half, rrel_pcm_me))),
            asymm_rme_isospin)
  IN  Add(Add(Add(spin_symm_term, spin_asymm_term), oam_diagonal_term),
          oam_cross_term)

\* Variant of NLO1BodyCM whose last branch is the T0 = 1 branch.
NLO1BodyCM_isovector_fallthrough(bra, ket, T0) ==
  NaNToZero(IF T0 = 0 THEN NLO1BodyCM_isoscalar(bra, ket)
            ELSE NLO1BodyCM_isovector(bra, ket))

\* NLO one-body term, relative+CM states (m1.cpp:254-315).
NLO1BodyCM(bra, ket, T0) ==
  NaNToZero(IF T0 = 0 THEN NLO1BodyCM_isoscalar(bra, ket)
            ELSE IF T0 = 1 THEN NLO1BodyCM_isovector(bra, ket)
            ELSE Zero)

\* The parameter bundle of the relative+CM NLO two-body term
\* (m1.cpp:341-348).
NLO2BodyCM_prel(bra, ket, b, regularize, regulator) ==
  LET brel == b.relative
      scaled_regulator_rel == Div(regulator, brel)
      scaled_pion_mass_rel == Mul(pion_mass_fm, brel)
  IN  gsl_params_2n(bra.Nr, bra.lr, ket.Nr, ket.lr, regularize,
                    scaled_regulator_rel, scaled_pion_mass_rel)

\* The LEC prefactor of the relative+CM NLO two-body term (m1.cpp:370-374).
NLO2BodyCM_lec_prefactor ==
  LET num == Mul(Mul(gA, cube(pion_mass_fm)), d18_fm)
      denom == Mul(Mul(FromInt(12), pi), square(pion_decay_constant_fm))
  IN  Div(Div(num, denom), nuclear_magneton_fm)

\* The relative-frame sum of the relative+CM NLO two-body term, as the
\* double computed at m1.cpp:382-384 before it is stored.
NLO2BodyCM_relative_sum(bra, ket, b, regularize, regulator) ==
  LET nr == ket.Nr  nrp == bra.Nr
      lr == ket.lr  lrp == bra.lr
      lc == ket.lc  lcp == bra.lc
      L == ket.L    Lp == bra.L
      S == ket.S    Sp == bra.S
      J == ket.J    Jp == bra.J
      prel == NLO2BodyCM_prel(bra, ket, b, regularize, regulator)
      norm_product_rel ==
        Mul(CoordinateSpaceNorm(nr, lr, 1), CoordinateSpaceNorm(nrp, lrp, 1))
      A6S1_rme ==
        Mul(sqrt10,
            RelativeCMPauliProductRME(lrp, lr, lcp, lc, Lp, L, Sp, S, Jp, J, 0, 2, 2, 1, 1))
      S1_rme ==
        RelativeCMPauliProductRME(lrp, lr, lcp, lc, Lp, L, Sp, S, Jp, J, 0, 0, 0, 1, 1)
      zpi_integral == Mul(norm_product_rel, IntegralZPiYPiR(prel))
      tpi_integral == Mul(norm_product_rel, IntegralTPiYPiR(prel))
  IN  Add(Mul(zpi_integral, A6S1_rme), Mul(tpi_integral, S1_rme))

\* The local `relative` of the relative+CM NLO two-body term: declared
\* `auto relative = 0`, an int (m1.cpp:379), assigned the double sum when
\* the CM quantum numbers are diagonal (m1.cpp:380-385).
NLO2BodyCM_relative(bra, ket, b, regularize, regulator) ==
  IF bra.Nc = ket.Nc /\ bra.lc = ket.lc
  THEN ToInt(NLO2BodyCM_relative_sum(bra, ket, b, regularize, regulator), build)
  ELSE 0

\* The CM-frame part of the relative+CM NLO two-body term (m1.cpp:352-378).
NLO2BodyCM_relative_cm(bra, ket, b, regularize, regulator) ==
  LET nr == ket.Nr  nrp == bra.Nr
      lr == ket.lr  lrp == bra.lr
      nc == ket.Nc  ncp == bra.Nc
      lc == ket.lc  lcp == bra.lc
      L == ket.L    Lp == bra.L
      S == ket.S    Sp == bra.S
      J == ket.J    Jp == bra.J
      bcm == b.cm
      prel == NLO2BodyCM_prel(bra, ket, b, regularize, regulator)
      mpir_integral == Mul(Mul(pion_mass_fm, bcm), IntegralMPiR(ncp, nc, lcp, lc))
      norm_product_rel ==
        Mul(CoordinateSpaceNorm(nr, lr, 1), CoordinateSpaceNorm(nrp, lrp, 1))
      mpir_wpi_integral == Mul(norm_product_rel, IntegralMPiRWPiRYPiR(prel))
      A1_rme ==
        Mul(Neg(sqrt3),
            RelativeCMPauliProductRME(lrp, lr, lcp, lc, Lp, L, Sp, S, Jp, J, 1, 1, 1, 0, 1))
      A2_rme ==
        Mul(sqrt3over5,
            RelativeCMPauliProductRME(lrp, lr, lcp, lc, Lp, L, Sp, S, Jp, J, 1, 1, 1, 2, 1))
      A3_rme ==
        Mul(sqrt9over5,
            RelativeCMPauliProductRME(lrp, lr, lcp, lc, Lp, L, Sp, S, Jp, J, 1, 1, 2, 2, 1))
      A4_rme ==
        Mul(sqrt14over5,
            RelativeCMPauliProductRME(lrp, lr, lcp, lc, Lp, L, Sp, S, Jp, J, 3, 1, 2, 2, 1))
      A5_rme ==
        Mul(sqrt28over5,
            RelativeCMPauliProductRME(lrp, lr, lcp, lc, Lp, L, Sp, S, Jp, J, 3, 1, 3, 2, 1))
      api_r ==
        Add(A1_rme,
            Mul(mpir_wpi_integral, Add(Add(Add(A2_rme, A3_rme), A4_rme), A5_rme)))
  IN  Mul(mpir_integral, api_r)

\* The relative+CM NLO two-body term past its T0 guard (m1.cpp:327-389).
NLO2BodyCM_isovector(bra, ket, b, regularize, regulator) ==
  LET T1_rme == PauliProductRME(bra.T, ket.T, 1)
      relative_cm == NLO2BodyCM_relative_cm(bra, ket, b, regularize, regulator)
      relative == NLO2BodyCM_relative(bra, ket, b, regularize, regulator)
      result ==
        Mul(Mul(NLO2BodyCM_lec_prefactor, T1_rme),
            Add(relative_cm, FromInt(relative)))
  IN  NaNToZero(result)

\* NLO two-body term, relative+CM states (m1.cpp:317-390).
NLO2BodyCM(bra, ket, b, regularize, regulator, T0) ==
  IF T0 # 1 THEN Zero
  ELSE NLO2BodyCM_isovector(bra, ket, b, regularize, regulator)

\* The parameter bundle of the relative N3LO term (m1.cpp:414-418).
N3LO2BodyIsoscalarRel_prel(bra, ket, b, regularize, regulator) ==
  LET brel == b.relative
      scaled_regulator_rel == Div(regulator, brel)
      scaled_pion_mass_rel == Mul(pion_mass_fm, brel)
  IN  gsl_params_2n(bra.n, bra.L, ket.n, ket.L, regularize,
                    scaled_pion_mass_rel, scaled_regulator_rel)

\* The d9 term of the relative N3LO term (m1.cpp:420-436).
N3LO2BodyIsoscalarRel_d9_term(bra, ket, b, regularize, regulator) ==
  LET nr == ket.n   nrp == bra.n
      L == ket.L    Lp == bra.L
      S == ket.S    Sp == bra.S
      J == ket.J    Jp == bra.J
      T == ket.T    Tp == bra.T
      S_rme == RelativeSpinSymmetricRME(Lp, L, Sp, S, Jp, J, 0, 1)
      prel == N3LO2BodyIsoscalarRel_prel(bra, ket, b, regularize, regulator)
      T0_rme == PauliProductRME(Tp, T, 0)
      norm_product ==
        Mul(CoordinateSpaceNorm(nr, L, 1), CoordinateSpaceNorm(nrp, Lp, 1))
      ypi_integral == Mul(norm_product, IntegralYPiR(prel))
      wpi_integral == Mul(norm_product, IntegralWPiRYPiR(prel))
      A6S_rme == Mul(sqrt10, RelativeSpinSymmetricRME(Lp, L, Sp, S, Jp, J, 2, 1))
      d9_prefactor ==
        Div(Mul(Mul(gA, d9_fm), cube(pion_mass_fm)),
            Mul(Mul(sqrt3, pi), square(pion_decay_constant_fm)))
  IN  Mul(Mul(d9_prefactor, T0_rme),
          Sub(Mul(wpi_integral, A6S_rme), Mul(ypi_integral, S_rme)))

\* The L2 term of the relative N3LO term (m1.cpp:438-444).  The guard reads
\* the ket's L twice.
N3LO2BodyIsoscalarRel_L2_term(bra, ket, b, regularize, regulator) ==
  LET L == ket.L    Lp == bra.L
      S == ket.S    Sp == bra.S
      J == ket.J    Jp == bra.J
      T == ket.T    Tp == bra.T
      brel == b.relative
      S_rme == RelativeSpinSymmetricRME(Lp, L, Sp, S, Jp, J, 0, 1)
      prel == N3LO2BodyIsoscalarRel_prel(bra, ket, b, regularize, regulator)
  IN  IF L = 0 /\ L = 0 /\ Tp = T
      THEN LET delta_integral == Div(IntegralRegularizedDelta(prel), cube(brel))
           IN  Add(Zero, Mul(Mul(Mul(Two, L2_fm), S_rme), delta_integral))
      ELSE Zero

\* N3LO isoscalar two-body term, relative states (m1.cpp:397-452).  T0 is
\* not read.
N3LO2BodyIsoscalarRel(bra, ket, b, regularize, regulator, T0) ==
  LET d9_term == N3LO2BodyIsoscalarRel_d9_term(bra, ket, b, regularize, regulator)
      L2_term == N3LO2BodyIsoscalarRel_L2_term(bra, ket, b, regularize, regulator)
      result == Mul(Add(d9_term, L2_term), Mul(Two, nucleon_mass_fm))
  IN  NaNToZero(result)

\* N3LO isoscalar two-body term, relative+CM states (m1.cpp:454-462).
N3LO2BodyIsoscalarCM(bra, ket, b, regularize, regulator, T0) == Zero

----------------------------------------------------------------------------
(* M1Operator's per-order matrix elements (m1.cpp:12-141).                 *)

LOMatrixElementRel(bra, ket, b, regularize, regulator, T0, Abody) == Zero

LOMatrixElementCM(bra, ket, b, regularize, regulator, T0, Abody) == Zero

\* Variant of NLOMatrixElementRel that adds the two-body term to the
\* one-body term when Abody = 2.
NLOMatrixElementRel_summing(bra, ket, b, regularize, regulator, T0, Abody) ==
  IF Abody = 1 THEN NLO1BodyRel(bra, ket, T0)
  ELSE IF Abody = 2
    THEN Add(NLO1BodyRel(bra, ket, T0),
             NLO2BodyRel(bra, ket, b, regularize, regulator, T0))
  ELSE Zero

NLOMatrixElementRel(bra, ket, b, regularize, regulator, T0, Abody) ==
  IF Abody = 1 THEN NLO1BodyRel(bra, ket, T0)
  ELSE IF Abody = 2 THEN NLO2BodyRel(bra, ket, b, regularize, regulator, T0)
  ELSE Zero

NLOMatrixElementCM(bra, ket, b, regularize, regulator, T0, Abody) ==
  IF Abody = 1 THEN NLO1BodyCM(bra, ket, T0)
  ELSE IF Abody = 2 THEN NLO2BodyCM(bra, ket, b, regularize, regulator, T0)
  ELSE Zero

N2LOMatrixElementRel(bra, ket, b, regularize, regulator, T0, Abody) == Zero

\* Variant of N2LOMatrixElementCM that repeats the NLO dispatch.
N2LOMatrixElementCM_as_NLO(bra, ket, b, regularize, regulator, T0, Abody) ==
  NLOMatrixElementCM(bra, ket, b, regularize, regulator, T0, Abody)

N2LOMatrixElementCM(bra, ket, b, regularize, regulator, T0, Abody) == Zero

N3LOMatrixElementRel(bra, ket, b, regularize, regulator, T0, Abody) ==
  N3LO2BodyIsoscalarRel(bra, ket, b, regularize, regulator, T0)

\* Variant of N3LOMatrixElementCM whose one-body branch evaluates the NLO
\* one-body term.
N3LOMatrixElementCM_one_body(bra, ket, b, regularize, regulator, T0, Abody) ==
  IF Abody = 1 THEN NLO1BodyCM(bra, ket, T0)
  ELSE IF Abody = 2 THEN N3LO2BodyIsoscalarCM(bra, ket, b, regularize, regulator, T0)
  ELSE Zero

N3LOMatrixElementCM(bra, ket, b, regularize, regulator, T0, Abody) ==
  IF Abody = 1 THEN Zero
  ELSE IF Abody = 2 THEN N3LO2BodyIsoscalarCM(bra, ket, b, regularize, regulator, T0)
  ELSE Zero

N4LOMatrixElementRel(bra, ket, b, regularize, regulator, T0, Abody) == Zero

N4LOMatrixElementCM(bra, ket, b, regularize, regulator, T0, Abody) == Zero

----------------------------------------------------------------------------
(* Calls.  A call record holds the evaluator, the representation of its    *)
(* states, the arguments and the value returned.                           *)

NoCall == [fn |-> "none"]

CallRecord(fn, rep, bra, ket, c, T0, Abody, result) ==
  [fn |-> fn, rep |-> rep, bra |-> bra, ket |-> ket, b |-> c.b,
   regularize |-> c.regularize, regulator |-> c.regulator,
   T0 |-> T0, Abody |-> Abody, result |-> result]

\* No driver run is in progress.
NoDriver == [phase |-> "none"]

\* The operator object after construction: the M1 operator has tensor rank
\* 1 and even parity.
InitialOperator == [order |-> "full", J0 |-> 1, G0 |-> 0, T0 |-> 1]

Init ==
  /\ op = InitialOperator
  /\ lib \in Libraries
  /\ build \in Builds
  /\ pc = "idle"
  /\ last = NoCall
  /\ drv = NoDriver

\* What every evaluator call leaves alone: no evaluator assigns a field of
\* the operator, the libraries and the build are fixed, and the driver's
\* loop state is not reachable from an evaluator.
Shared == <<op, lib, build, drv>>

CallLOMatrixElementRel ==
  /\ pc = "idle"
  /\ \E bra \in RelativeStateLSJT, ket \in RelativeStateLSJT,
        c \in Configurations, T0 \in T0Values, Abody \in AbodyValues :
       last' = CallRecord("LOMatrixElement", "Relative", bra, ket, c, T0, Abody,
                 LOMatrixElementRel(bra, ket, c.b, c.regularize, c.regulator, T0, Abody))
  /\ pc' = "called"
  /\ UNCHANGED Shared

CallLOMatrixElementCM ==
  /\ pc = "idle"
  /\ \E bra \in RelativeCMStateLSJT, ket \in RelativeCMStateLSJT,
        c \in Configurations, T0 \in T0Values, Abody \in AbodyValues :
       last' = CallRecord("LOMatrixElement", "RelativeCM", bra, ket, c, T0, Abody,
                 LOMatrixElementCM(bra, ket, c.b, c.regularize, c.regulator, T0, Abody))
  /\ pc' = "called"
  /\ UNCHANGED Shared

\* Variant of CallNLOMatrixElementRel in which the call stores its T0 in
\* the operator.
CallNLOMatrixElementRel_storing_T0 ==
  /\ pc = "idle"
  /\ \E bra \in RelativeStateLSJT, ket \in RelativeStateLSJT,
        c \in Configurations, T0 \in T0Values, Abody \in AbodyValues :
       /\ last' = CallRecord("NLOMatrixElement", "Relative", bra, ket, c, T0, Abody,
                    NLOMatrixElementRel(bra, ket, c.b, c.regularize, c.regulator, T0, Abody))
       /\ op' = [op EXCEPT !.T0 = T0]
  /\ pc' = "called"
  /\ UNCHANGED <<lib, build, drv>>

CallNLOMatrixElementRel ==
  /\ pc = "idle"
  /\ \E bra \in RelativeStateLSJT, ket \in RelativeStateLSJT,
        c \in Configurations, T0 \in T0Values, Abody \in AbodyValues :
       last' = CallRecord("NLOMatrixElement", "Relative", bra, ket, c, T0, Abody,
                 NLOMatrixElementRel(bra, ket, c.b, c.regularize, c.regulator, T0, Abody))
  /\ pc' = "called"
  /\ UNCHANGED Shared

CallNLOMatrixElementCM ==
  /\ pc = "idle"
  /\ \E bra \in RelativeCMStateLSJT, ket \in RelativeCMStateLSJT,
        c \in Configurations, T0 \in T0Values, Abody \in AbodyValues :
       last' = CallRecord("NLOMatrixElement", "RelativeCM", bra, ket, c, T0, Abody,
                 NLOMatrixElementCM(bra, ket, c.b, c.regularize, c.regulator, T0, Abody))
  /\ pc' = "called"
  /\ UNCHANGED Shared

CallN2LOMatrixElementRel ==
  /\ pc = "idle"
  /\ \E bra \in RelativeStateLSJT, ket \in RelativeStateLSJT,
        c \in Configurations, T0 \in T0Values, Abody \in AbodyValues :
       last' = CallRecord("N2LOMatrixElement", "Relative", bra, ket, c, T0, Abody,
                 N2LOMatrixElementRel(bra, ket, c.b, c.regularize, c.regulator, T0, Abody))
  /\ pc' = "called"
  /\ UNCHANGED Shared

CallN2LOMatrixElementCM ==
  /\ pc = "idle"
  /\ \E bra \in RelativeCMStateLSJT, ket \in RelativeCMStateLSJT,
        c \in Configurations, T0 \in T0Values, Abody \in AbodyValues :
       last' = CallRecord("N2LOMatrixElement", "RelativeCM", bra, ket, c, T0, Abody,
                 N2LOMatrixElementCM(bra, ket, c.b, c.regularize, c.regulator, T0, Abody))
  /\ pc' = "called"
  /\ UNCHANGED Shared

CallN3LOMatrixElementRel ==
  /\ pc = "idle"
  /\ \E bra \in RelativeStateLSJT, ket \in RelativeStateLSJT,
        c \in Configurations, T0 \in T0Values, Abody \in AbodyValues :
       last' = CallRecord("N3LOMatrixElement", "Relative", bra, ket, c, T0, Abody,
                 N3LOMatrixElementRel(bra, ket, c.b, c.regularize, c.regulator, T0, Abody))
  /\ pc' = "called"
  /\ UNCHANGED Shared

CallN3LOMatrixElementCM ==
  /\ pc = "idle"
  /\ \E bra \in RelativeCMStateLSJT, ket \in RelativeCMStateLSJT,
        c \in Configurations, T0 \in T0Values, Abody \in AbodyValues :
       last' = CallRecord("N3LOMatrixElement", "RelativeCM", bra, ket, c, T0, Abody,
                 N3LOMatrixElementCM(bra, ket, c.b, c.regularize, c.regulator, T0, Abody))
  /\ pc' = "called"
  /\ UNCHANGED Shared

CallN4LOMatrixElementRel ==
  /\ pc = "idle"
  /\ \E bra \in RelativeStateLSJT, ket \in RelativeStateLSJT,
        c \in Configurations, T0 \in T0Values, Abody \in AbodyValues :
       last' = CallRecord("N4LOMatrixElement", "Relative", bra, ket, c, T0, Abody,
                 N4LOMatrixElementRel(bra, ket, c.b, c.regularize, c.regulator, T0, Abody))
  /\ pc' = "called"
  /\ UNCHANGED Shared

CallN4LOMatrixElementCM ==
  /\ pc = "idle"
  /\ \E bra \in RelativeCMStateLSJT, ket \in RelativeCMStateLSJT,
        c \in Configurations, T0 \in T0Values, Abody \in AbodyValues :
       last' = CallRecord("N4LOMatrixElement", "RelativeCM", bra, ket, c, T0, Abody,
                 N4LOMatrixElementCM(bra, ket, c.b, c.regularize, c.regulator, T0, Abody))
  /\ pc' = "called"
  /\ UNCHANGED Shared

\* The value the evaluator of call record c returns for c's arguments.
Evaluate(c) ==
  LET rel == c.rep = "Relative"
  IN  CASE c.fn = "LOMatrixElement" ->
             IF rel
             THEN LOMatrixElementRel(c.bra, c.ket, c.b, c.regularize, c.regulator, c.T0, c.Abody)
             ELSE LOMatrixElementCM(c.bra, c.ket, c.b, c.regularize, c.regulator, c.T0, c.Abody)
        [] c.fn = "NLOMatrixElement" ->
             IF rel
             THEN NLOMatrixElementRel(c.bra, c.ket, c.b, c.regularize, c.regulator, c.T0, c.Abody)
             ELSE NLOMatrixElementCM(c.bra, c.ket, c.b, c.regularize, c.regulator, c.T0, c.Abody)
        [] c.fn = "N2LOMatrixElement" ->
             IF rel
             THEN N2LOMatrixElementRel(c.bra, c.ket, c.b, c.regularize, c.regulator, c.T0, c.Abody)
             ELSE N2LOMatrixElementCM(c.bra, c.ket, c.b, c.regularize, c.regulator, c.T0, c.Abody)
        [] c.fn = "N3LOMatrixElement" ->
             IF rel
             THEN N3LOMatrixElementRel(c.bra, c.ket, c.b, c.regularize, c.regulator, c.T0, c.Abody)
             ELSE N3LOMatrixElementCM(c.bra, c.ket, c.b, c.regularize, c.regulator, c.T0, c.Abody)
        [] c.fn = "N4LOMatrixElement" ->
             IF rel
             THEN N4LOMatrixElementRel(c.bra, c.ket, c.b, c.regularize, c.regulator, c.T0, c.Abody)
             ELSE N4LOMatrixElementCM(c.bra, c.ket, c.b, c.regularize, c.regulator, c.T0, c.Abody)

\* The driver calls the evaluator a second time with the same arguments
\* (main.cpp:145-149).
CallAgain ==
  /\ pc = "called"
  /\ last' = [last EXCEPT !.result = Evaluate(last)]
  /\ pc' = "again"
  /\ UNCHANGED Shared

\* The caller takes the value.
Return ==
  /\ pc \in {"called", "again"}
  /\ pc' = "idle"
  /\ last' = NoCall
  /\ UNCHANGED Shared

Next ==
  \/ CallLOMatrixElementRel
  \/ CallLOMatrixElementCM
  \/ CallNLOMatrixElementRel
  \/ CallNLOMatrixElementCM
  \/ CallN2LOMatrixElementRel
  \/ CallN2LOMatrixElementCM
  \/ CallN3LOMatrixElementRel
  \/ CallN3LOMatrixElementCM
  \/ CallN4LOMatrixElementRel
  \/ CallN4LOMatrixElementCM
  \/ CallAgain
  \/ Return

Spec == Init /\ [][Next]_vars

----------------------------------------------------------------------------
(* The driver's order loop (main.cpp:117-175).  The value of a matrix      *)
(* element is kept symbolic here: an entry of matrices is the sequence of  *)
(* the orders whose matrix element has been added to it, an entry of       *)
(* temp_matrices the order whose matrix element was last stored in it.     *)

\* Number of (sector, bra, ket) entries of each T0 component.
SectorEntries == 1

\* chiral::order_map: an ordered mapping from the order's name to its enum
\* value, searched by name (main.cpp:164) and iterated from begin() to
\* end() (main.cpp:118), that is in the order of its keys, the names.  Each
\* element is <<it->first, it->second>>.
order_map ==
  <<  <<"full", "full">>, <<"lo", "lo">>, <<"n2lo", "n2lo">>,
      <<"n3lo", "n3lo">>, <<"n4lo", "n4lo">>, <<"nlo", "nlo">>  >>

\* order_map.find(name): the position of the key, Len + 1 for end().
order_map_find(name) ==
  IF \E i \in 1..Len(order_map) : order_map[i][1] = name
  THEN CHOOSE i \in 1..Len(order_map) : order_map[i][1] = name
  ELSE Len(order_map) + 1

\* The entries of the operator containers: (T0, index).
DriverEntries == T0Values \X (1..SectorEntries)

\* The last T0 component (op_params.T0_max).
T0_max == 2

DriverInit ==
  /\ op = InitialOperator
  /\ lib \in Libraries
  /\ build \in Builds
  /\ pc = "idle"
  /\ last = NoCall
  /\ \E order \in Order :
       drv = [phase |-> "first", order |-> order, it |-> 1, T0 |-> 0, index |-> 1,
              matrices |-> [e \in DriverEntries |-> << >>],
              temp_matrices |-> [e \in DriverEntries |-> "none"],
              files |-> << >>]

\* temp_matrices[T0][sector_index](bra_index, ket_index) =
\*   op->ReducedMatrixElement(order_e, ...)  (main.cpp:143-146).
DriverFirstCall ==
  /\ drv.phase = "first"
  /\ LET order_e == order_map[drv.it][2]
     IN  drv' = [drv EXCEPT !.temp_matrices[<<drv.T0, drv.index>>] = order_e,
                            !.phase = "second"]
  /\ UNCHANGED <<op, lib, build, pc, last>>

\* matrices[T0][sector_index](bra_index, ket_index) +=
\*   op->ReducedMatrixElement(order_e, ...)  (main.cpp:148-149), then the
\* increments of the ket, bra, sector and T0 loops (main.cpp:121-153).
DriverSecondCall ==
  /\ drv.phase = "second"
  /\ LET order_e == order_map[drv.it][2]
         added == [drv EXCEPT !.matrices[<<drv.T0, drv.index>>] = Append(@, order_e)]
     IN  drv' = IF drv.index < SectorEntries
                THEN [added EXCEPT !.index = @ + 1, !.phase = "first"]
                ELSE IF drv.T0 < T0_max
                THEN [added EXCEPT !.T0 = @ + 1, !.index = 1, !.phase = "first"]
                ELSE [added EXCEPT !.phase = "order_done"]
  /\ UNCHANGED <<op, lib, build, pc, last>>

\* The order's file is written, then the loop breaks if this is the
\* requested order, else ++it (main.cpp:155-166).
DriverWriteOrder ==
  /\ drv.phase = "order_done"
  /\ LET written == [drv EXCEPT !.files = Append(@, order_map[drv.it][1])]
     IN  drv' = IF drv.it = order_map_find(drv.order)
                THEN [written EXCEPT !.phase = "loop_exit"]
                ELSE IF drv.it + 1 > Len(order_map)
                THEN [written EXCEPT !.it = @ + 1, !.phase = "loop_exit"]
                ELSE [written EXCEPT !.it = @ + 1, !.T0 = 0, !.index = 1,
                                     !.phase = "first"]
  /\ UNCHANGED <<op, lib, build, pc, last>>

\* The cumulative file is written from matrices (main.cpp:168-175).
DriverWriteCumulative ==
  /\ drv.phase = "loop_exit"
  /\ drv' = [drv EXCEPT !.files = Append(@, drv.order \o "_cumulative"),
                        !.phase = "done"]
  /\ UNCHANGED <<op, lib, build, pc, last>>

DriverNext ==
  \/ DriverFirstCall
  \/ DriverSecondCall
  \/ DriverWriteOrder
  \/ DriverWriteCumulative

DriverSpec == DriverInit /\ [][DriverNext]_vars

----------------------------------------------------------------------------
(* Properties.                                                             *)

\* A call has returned and last holds it.
Returned == pc \in {"called", "again"}

ReturnedFrom(fn, rep) == Returned /\ last.fn = fn /\ last.rep = rep

\* C1: LOMatrixElement, N2LOMatrixElement and N4LOMatrixElement return
\* exactly 0 for every bra, ket, oscillator parameter, regularize flag,
\* regulator, T0 and Abody, in the relative and the relative+CM overloads.
C1_ZeroOrders ==
  (Returned /\ last.fn \in {"LOMatrixElement", "N2LOMatrixElement", "N4LOMatrixElement"})
    => last.result = Zero

\* An N2LO relative+CM call with arguments at which the NLO evaluator is
\* not zero.
C1_Witness ==
  /\ ReturnedFrom("N2LOMatrixElement", "RelativeCM")
  /\ last.T0 = 1 /\ last.Abody = 2
  /\ NLOMatrixElementCM(last.bra, last.ket, last.b, last.regularize,
                        last.regulator, last.T0, last.Abody) # Zero
  /\ last.result = Zero

\* C2: in the relative N3LO evaluator the L2-contact sub-term is exactly 0
\* unless bra.L = 0 and ket.L = 0 and bra.T = ket.T.
C2_L2ContactGate ==
  (/\ ReturnedFrom("N3LOMatrixElement", "Relative")
   /\ ~(last.bra.L = 0 /\ last.ket.L = 0 /\ last.bra.T = last.ket.T))
    => N3LO2BodyIsoscalarRel_L2_term(last.bra, last.ket, last.b,
                                     last.regularize, last.regulator) = Zero

\* C3: no term evaluator returns NaN (a result that would be NaN is
\* returned as 0).
C3_NeverNaN ==
  (Returned /\ last.fn \in {"NLOMatrixElement", "N3LOMatrixElement"})
    => ~isnan(last.result)

\* C4: the relative NLO one-body term is 0 whenever bra.n # ket.n or
\* bra.L # ket.L, for every T0 and every value of the RME oracles.
C4_NLO1BodyRadialOrbitalDiagonal ==
  (/\ Returned /\ last.rep = "Relative"
   /\ (last.bra.n # last.ket.n \/ last.bra.L # last.ket.L))
    => /\ NLO1BodyRel(last.bra, last.ket, last.T0) = Zero
       /\ (last.fn = "NLOMatrixElement" /\ last.Abody = 1) => last.result = Zero

\* A one-body NLO call with bra.n # ket.n at which the T0 = 0 branch would
\* not be zero.
C4_Witness ==
  /\ ReturnedFrom("NLOMatrixElement", "Relative")
  /\ last.Abody = 1 /\ last.T0 = 0
  /\ last.bra.n # last.ket.n /\ last.bra.L = last.ket.L
  /\ NLO1BodyRel_isoscalar(last.bra, last.ket) \notin {Zero, NaN}
  /\ last.result = Zero

\* C5: the NLO one-body term is 0 for every T0 outside {0, 1}, for every
\* bra and ket, in the relative and the relative+CM overloads.
C5_NLO1BodyUnsupportedT0 ==
  (Returned /\ last.T0 \notin {0, 1})
    => /\ last.rep = "Relative" => NLO1BodyRel(last.bra, last.ket, last.T0) = Zero
       /\ last.rep = "RelativeCM" => NLO1BodyCM(last.bra, last.ket, last.T0) = Zero
       /\ (last.fn = "NLOMatrixElement" /\ last.Abody = 1) => last.result = Zero

\* A one-body relative+CM NLO call with T0 = 2 at which the T0 = 1 branch
\* would not be zero.
C5_Witness ==
  /\ ReturnedFrom("NLOMatrixElement", "RelativeCM")
  /\ last.Abody = 1 /\ last.T0 = 2
  /\ NLO1BodyCM_isovector(last.bra, last.ket) \notin {Zero, NaN}
  /\ last.result = Zero

\* C6: the NLO two-body term (both overloads, and NLOMatrixElement with
\* Abody = 2) is 0 whenever T0 # 1, whatever the oracles return.
C6_NLO2BodyIsovectorOnly ==
  (Returned /\ last.T0 # 1)
    => /\ last.rep = "Relative" =>
            NLO2BodyRel(last.bra, last.ket, last.b, last.regularize,
                        last.regulator, last.T0) = Zero
       /\ last.rep = "RelativeCM" =>
            NLO2BodyCM(last.bra, last.ket, last.b, last.regularize,
                       last.regulator, last.T0) = Zero
       /\ (last.fn = "NLOMatrixElement" /\ last.Abody = 2) => last.result = Zero

\* A two-body relative NLO call with T0 = 0 at which the term past the
\* guard would not be zero.
C6_Witness ==
  /\ ReturnedFrom("NLOMatrixElement", "Relative")
  /\ last.Abody = 2 /\ last.T0 = 0
  /\ NLO2BodyRel_isovector(last.bra, last.ket, last.b, last.regularize,
                           last.regulator) # Zero
  /\ last.result = Zero

\* C7: N3LOMatrixElement on relative+CM states returns exactly 0 for every
\* bra, ket, oscillator parameter, regularize flag, regulator, T0 and Abody.
C7_N3LORelativeCMZero ==
  ReturnedFrom("N3LOMatrixElement", "RelativeCM") => last.result = Zero

\* A two-body relative+CM N3LO call at arguments at which the NLO two-body
\* term is not zero.
C7_Witness ==
  /\ ReturnedFrom("N3LOMatrixElement", "RelativeCM")
  /\ last.Abody = 2 /\ last.T0 = 0
  /\ NLO2BodyCM_isovector(last.bra, last.ket, last.b, last.regularize,
                          last.regulator) # Zero
  /\ last.result = Zero

\* The deuteron-like channel.
Deuteron == [n |-> 0, L |-> 0, S |-> 1, J |-> 1, T |-> 0]

\* The oracle values the deuteron scenario assumes: symmetric-spin RME 1,
\* orbital RME 0.
DeuteronOracles ==
  /\ RelativeSpinSymmetricRME(0, 0, 1, 1, 1, 1, 0, 1) = One
  /\ RelativeLrelRME(0, 0, 1, 1, 1, 1) = Zero

DeuteronNLOCall ==
  /\ ReturnedFrom("NLOMatrixElement", "Relative")
  /\ last.bra = Deuteron /\ last.ket = Deuteron
  /\ last.T0 = 0
  /\ DeuteronOracles

\* C8 as stated: in the deuteron-like channel the NLO matrix element with
\* T0 = 0 equals the isoscalar nucleon magnetic moment for every oscillator
\* parameter, regularize flag, regulator and body count.
C8_DeuteronAnyBodyCount ==
  (DeuteronNLOCall /\ last.Abody \in {1, 2})
    => last.result = isoscalar_nucleon_magnetic_moment

\* C8 amended: in the deuteron-like channel the NLO matrix element with
\* T0 = 0 equals the isoscalar nucleon magnetic moment for body count 1,
\* for every oscillator parameter, regularize flag and regulator; for body
\* count 2 it is 0.
C8_DeuteronOneBody ==
  DeuteronNLOCall
    => /\ last.Abody = 1 => last.result = isoscalar_nucleon_magnetic_moment
       /\ last.Abody = 2 => last.result = Zero

\* A one-body deuteron call under the regularized configuration.
C8_Witness ==
  /\ DeuteronNLOCall
  /\ last.Abody = 1 /\ last.regularize
  /\ last.result = isoscalar_nucleon_magnetic_moment
  /\ last.result # Zero

C10_NLOSumOfBodies ==
  (Returned /\ last.fn = "NLOMatrixElement")
    => /\ (last.rep = "Relative" /\ last.Abody = 1) =>
            last.result = NLO1BodyRel(last.bra, last.ket, last.T0)
       /\ (last.rep = "RelativeCM" /\ last.Abody = 1) =>
            last.result = NLO1BodyCM(last.bra, last.ket, last.T0)
       /\ (last.rep = "Relative" /\ last.Abody = 2) =>
            last.result =
              Add(NLO1BodyRel(last.bra, last.ket, last.T0),
                  NLO2BodyRel(last.bra, last.ket, last.b, last.regularize,
                              last.regulator, last.T0))
       /\ (last.rep = "RelativeCM" /\ last.Abody = 2) =>
            last.result =
              Add(NLO1BodyCM(last.bra, last.ket, last.T0),
                  NLO2BodyCM(last.bra, last.ket, last.b, last.regularize,
                             last.regulator, last.T0))

\* C10 amended: NLOMatrixElement with Abody = 1 returns NLO1Body alone, with
\* Abody = 2 returns NLO2Body alone (the one-body term is not added), and
\* with any other Abody returns 0, in both representations.
C10_NLOBodyDispatch ==
  (Returned /\ last.fn = "NLOMatrixElement")
    => /\ (last.rep = "Relative" /\ last.Abody = 1) =>
            last.result = NLO1BodyRel(last.bra, last.ket, last.T0)
       /\ (last.rep = "RelativeCM" /\ last.Abody = 1) =>
            last.result = NLO1BodyCM(last.bra, last.ket, last.T0)
       /\ (last.rep = "Relative" /\ last.Abody = 2) =>
            last.result =
              NLO2BodyRel(last.bra, last.ket, last.b, last.regularize,
                          last.regulator, last.T0)
       /\ (last.rep = "RelativeCM" /\ last.Abody = 2) =>
            last.result =
              NLO2BodyCM(last.bra, last.ket, last.b, last.regularize,
                         last.regulator, last.T0)
       /\ last.Abody \notin {1, 2} => last.result = Zero

\* A two-body relative NLO call with T0 = 1 at which both the one-body and
\* the two-body term are non-zero, and the two-body term is returned.
C10_Witness ==
  /\ ReturnedFrom("NLOMatrixElement", "Relative")
  /\ last.Abody = 2 /\ last.T0 = 1
  /\ NLO1BodyRel(last.bra, last.ket, last.T0) \notin {Zero, NaN}
  /\ last.result \notin {Zero, NaN}
  /\ last.result =
       NLO2BodyRel(last.bra, last.ket, last.b, last.regularize,
                   last.regulator, last.T0)

\* The slots the bundle p must hold for oscillator parameter b and the
\* given regulator: regulator / b.relative() and pion_mass * b.relative().
CanonicalSlots(p, b, regulator) ==
  /\ p.regulator = Div(regulator, b.relative)
  /\ p.pion_mass = Mul(pion_mass_fm, b.relative)

\* C11: every evaluator that builds a radial-quadrature parameter bundle
\* puts regulator / b.relative() in the regulator slot and
\* pion_mass * b.relative() in the pion-mass slot: NLO2Body (both
\* overloads) and N3LO2BodyIsoscalar (relative).
C11_BundleFieldOrder ==
  /\ ReturnedFrom("NLOMatrixElement", "Relative") =>
       CanonicalSlots(NLO2BodyRel_prel(last.bra, last.ket, last.b,
                        last.regularize, last.regulator),
                      last.b, last.regulator)
  /\ ReturnedFrom("NLOMatrixElement", "RelativeCM") =>
       CanonicalSlots(NLO2BodyCM_prel(last.bra, last.ket, last.b,
                        last.regularize, last.regulator),
                      last.b, last.regulator)
  /\ ReturnedFrom("N3LOMatrixElement", "Relative") =>
       CanonicalSlots(N3LO2BodyIsoscalarRel_prel(last.bra, last.ket, last.b,
                        last.regularize, last.regulator),
                      last.b, last.regulator)

\* C12: N3LOMatrixElement on relative states returns 0 whenever Abody # 2
\* or T0 # 0.
C12_N3LORelativeIsoscalarTwoBodyOnly ==
  (/\ ReturnedFrom("N3LOMatrixElement", "Relative")
   /\ (last.Abody # 2 \/ last.T0 # 0))
    => last.result = Zero

\* C14: in the relative+CM NLO two-body term with T0 = 1 the relative-frame
\* contribution is zpi_integral * A6S1_rme + tpi_integral * S1_rme, not
\* rounded or truncated, when the CM quantum numbers are diagonal, and 0
\* otherwise; the value returned is
\* lec_prefactor * T1_rme * (relative_cm + that contribution).
C14_RelativeContributionExact ==
  (/\ ReturnedFrom("NLOMatrixElement", "RelativeCM")
   /\ last.Abody = 2 /\ last.T0 = 1)
    => LET contribution ==
             IF last.bra.Nc = last.ket.Nc /\ last.bra.lc = last.ket.lc
             THEN NLO2BodyCM_relative_sum(last.bra, last.ket, last.b,
                                          last.regularize, last.regulator)
             ELSE Zero
           relative_cm ==
             NLO2BodyCM_relative_cm(last.bra, last.ket, last.b,
                                    last.regularize, last.regulator)
           T1_rme == PauliProductRME(last.bra.T, last.ket.T, 1)
       IN  last.result =
             NaNToZero(Mul(Mul(NLO2BodyCM_lec_prefactor, T1_rme),
                           Add(relative_cm, contribution)))

\* C15: NLO1Body on relative+CM states with T0 = 0 returns 0 whenever
\* bra.Nr # ket.Nr or bra.Nc # ket.Nc.
C15_NLO1BodyCMRadialDiagonal ==
  (/\ ReturnedFrom("NLOMatrixElement", "RelativeCM")
   /\ last.Abody = 1 /\ last.T0 = 0
   /\ (last.bra.Nr # last.ket.Nr \/ last.bra.Nc # last.ket.Nc))
    => last.result = Zero

\* The chiral orders by perturbative power, as enum class Order declares
\* them.
Perturbative == <<"lo", "nlo", "n2lo", "n3lo", "n4lo", "full">>

\* The orders from lo up to and including order.
UpTo(order) ==
  SubSeq(Perturbative, 1, CHOOSE i \in 1..Len(Perturbative) : Perturbative[i] = order)

IsPrefix(s, t) == Len(s) <= Len(t) /\ SubSeq(t, 1, Len(s)) = s

\* C13: the driver processes the orders in perturbative order starting at
\* lo, each at most once, and stops right after the requested order; when
\* the cumulative file is written every cumulative entry is the sum of the
\* matrix elements of exactly the orders from lo up to and including the
\* requested order.
C13_DriverPerturbativeOrder ==
  drv.phase # "none" =>
    /\ \A e \in DriverEntries : IsPrefix(drv.matrices[e], UpTo(drv.order))
    /\ drv.phase = "done" =>
         /\ drv.files = UpTo(drv.order) \o <<drv.order \o "_cumulative">>
         /\ \A e \in DriverEntries : drv.matrices[e] = UpTo(drv.order)

====
